---- MODULE Spec2Model ----
(***************************************************************************)
(* Garba Practice Tracker (app.py): the Streamlit script as a state        *)
(* machine.  Every browser session re-executes the script from the top on  *)
(* each interaction or st.rerun(): the authentication gate, the cached     *)
(* load of the user's rows, then one of the three pages.  One script run   *)
(* is one step.  The cache of load_user_data (st.cache_data) is one map    *)
(* shared by all sessions.                                                 *)
(*                                                                         *)
(* Strings that the script slices, splits or prefix-matches (SessionID and *)
(* the selectbox labels) are sequences of one-character strings.  The      *)
(* output of strftime('%Y-%m-%d') and of formatting a number are single    *)
(* tokens: they contain neither a blank nor a dot, so no search for        *)
(* ' - ' or '...' can match inside them.                                   *)
(***************************************************************************)
EXTENDS Integers, Sequences, FiniteSets, TLC

VARIABLES
    store,             \* rows of the sheet, in the sheet's order
    fresh,             \* SessionIDs the sheet has not assigned yet
    cache,             \* st.cache_data of load_user_data: argument -> entry
    rerun,             \* a session's pending st.rerun(): the page and the user, or NoRerun
    \* the script run that was executed last:
    session,           \* the browser session it ran for
    trigger,           \* what started it: a user interaction or st.rerun()
    page,              \* value of the sidebar radio
    user_id,           \* result of auth.authenticate_user()
    user_sessions_df,  \* result of load_user_data(user_id)
    load,              \* how load_user_data was served: "hit", "miss", or "none"
    view,              \* elements put on the page
    manage,            \* locals of the Manage Sessions page
    call,              \* the sheets mutation made
    MoodValue          \* column df_mood['MoodValue']

vars == <<store, fresh, cache, rerun, session, trigger, page, user_id,
          user_sessions_df, load, view, manage, call, MoodValue>>

(***************************************************************************)
(* Bounds of the model                                                     *)
(***************************************************************************)
MaxOptions == 2
TickStep == 150

Sessions == {"s1", "s2"}
Users == {"U1", "U2"}
None == "None"
NaN == "NaN"

(***************************************************************************)
(* Program constants                                                       *)
(***************************************************************************)
ttl == 300
PrefixLen == 8
fillna_value == 25      \* 2.5, in tenths
Pages == {"Log Session", "Dashboard", "Manage Sessions"}
mood_options == <<"Energized", "Happy", "Tired", "Neutral", "Achieved">>
intensity_options == <<"Low", "Medium", "High">>
\* mood_mapping, in tenths
mood_mapping == [m \in {"Tired", "Neutral", "Achieved", "Happy", "Energized"} |->
                   CASE m = "Tired" -> 10
                     [] m = "Neutral" -> 20
                     [] m = "Achieved" -> 30
                     [] m = "Happy" -> 40
                     [] m = "Energized" -> 50]

Range(s) == {s[i] : i \in DOMAIN s}
Min(a, b) == IF a < b THEN a ELSE b

(***************************************************************************)
(* String operations of the script                                         *)
(***************************************************************************)
\* s[:n]
Slice(s, n) == SubSeq(s, 1, Min(n, Len(s)))

\* s.startswith(p)
startswith(s, p) == Len(p) <= Len(s) /\ SubSeq(s, 1, Len(p)) = p

\* s.split(sep)[-1]: separators are found left to right without overlap
RECURSIVE split_last(_, _)
split_last(s, sep) ==
    LET hits == {i \in 1..(Len(s) - Len(sep) + 1) : SubSeq(s, i, i + Len(sep) - 1) = sep}
    IN  IF hits = {} THEN s
        ELSE LET i == CHOOSE h \in hits : \A k \in hits : h <= k
             IN  split_last(SubSeq(s, i + Len(sep), Len(s)), sep)

\* s.replace(old, ''): occurrences are removed left to right without overlap
RECURSIVE replace_empty(_, _)
replace_empty(s, old) ==
    LET hits == {i \in 1..(Len(s) - Len(old) + 1) : SubSeq(s, i, i + Len(old) - 1) = old}
    IN  IF hits = {} THEN s
        ELSE LET i == CHOOSE h \in hits : \A k \in hits : h <= k
             IN  SubSeq(s, 1, i - 1) \o replace_empty(SubSeq(s, i + Len(old), Len(s)), old)

SEP == <<" ", "-", " ">>
DOTS == <<".", ".", ".">>

(***************************************************************************)
(* Rows and SessionIDs.  A SessionID is an opaque string: the model uses   *)
(* two ids that agree on their first 8 characters, an id shorter than 8    *)
(* characters that is a prefix of both, and an id that contains the        *)
(* label's separator.                                                      *)
(***************************************************************************)
IdLong1 == <<"a", "b", "c", "d", "e", "f", "g", "h", "1">>
IdLong2 == <<"a", "b", "c", "d", "e", "f", "g", "h", "2">>
IdShort == <<"a", "b">>
IdSep == <<"x", " ", "-", " ", "y">>
NoId == <<>>

\* Values the user enters in the forms.  Log Session: the widgets' defaults.
\* Edit form: the pre-filled values (None: the field is left alone) or another
\* choice of both selectboxes.
Dates == {"2024-01-01"}
Durations == {60}
LogChoices == {[intensity |-> intensity_options[1], mood |-> mood_options[1]]}
EditChoices == {[intensity |-> None, mood |-> None],
                [intensity |-> intensity_options[3], mood |-> mood_options[3]]}
StoredMoods == Range(mood_options) \cup {"Legacy", NaN}

Row(id, u, d, dur, i, m) ==
    [SessionID |-> id, UserID |-> u, Date |-> d, Duration |-> dur,
     Intensity |-> i, Mood |-> m]

NoRerun == [page |-> None, user |-> None]
NoEntry == [present |-> FALSE, data |-> <<>>, age |-> 0]
NoCall == [op |-> "none", session_id |-> <<>>, Intensity |-> None, Mood |-> None,
           ok |-> FALSE]
NoManage == [option_index |-> 0, selected_session_id |-> <<>>, resolved |-> FALSE,
             stored_mood |-> None, stored_intensity |-> None,
             mood_default |-> None, intensity_default |-> None]

(***************************************************************************)
(* sheets: the Session Repository adapter                                  *)
(***************************************************************************)
get_all_sessions(rows, u) ==
    LET mine(r) == r.UserID = u IN SelectSeq(rows, mine)

add_session(rows, u, id, data) ==
    Append(rows, Row(id, u, data.Date, data.Duration, data.Intensity, data.Mood))

update_session(rows, id, data) ==
    [k \in DOMAIN rows |->
        IF rows[k].SessionID = id
        THEN [rows[k] EXCEPT !.Date = data.Date, !.Duration = data.Duration,
                             !.Intensity = data.Intensity, !.Mood = data.Mood]
        ELSE rows[k]]

delete_session(rows, id) ==
    LET others(r) == r.SessionID # id IN SelectSeq(rows, others)

HasRow(rows, id) == \E k \in DOMAIN rows : rows[k].SessionID = id

(***************************************************************************)
(* st.cache_data(ttl=300) around load_user_data                            *)
(***************************************************************************)
CacheHit(c, u) == c[u].present /\ c[u].age < ttl

\* load_user_data(current_user_id): the value returned and the cache afterwards
load_user_data(c, rows, u) ==
    IF CacheHit(c, u)
    THEN [data |-> c[u].data, cache |-> c, served |-> "hit"]
    ELSE LET data == get_all_sessions(rows, u)
         IN  [data |-> data,
              cache |-> [c EXCEPT ![u] = [present |-> TRUE, data |-> data, age |-> 0]],
              served |-> "miss"]

\* a clear() that drops nothing
clear_nothing(c) == c

\* load_user_data.clear(): drops every entry of the function's cache
load_user_data_clear(c) == [u \in DOMAIN c |-> NoEntry]

\* The arguments load_user_data can be called with
Keys == Users \cup {None}

(***************************************************************************)
(* Dashboard: mood trend                                                   *)
(***************************************************************************)
\* Series.map(mood_mapping): a value that is no key of the mapping becomes NaN
\* (a cell is <<v>>, and <<>> when it is NaN)
map_mood(m) == IF m \in DOMAIN mood_mapping THEN <<mood_mapping[m]>> ELSE <<>>

\* a fill with Neutral's ordinal instead of 2.5
fillna_neutral(cell) == IF cell = <<>> THEN mood_mapping["Neutral"] ELSE cell[1]

\* .fillna(2.5)
fillna(cell) == IF cell = <<>> THEN fillna_value ELSE cell[1]

\* pd.to_datetime(errors='coerce') and dropna(subset=['Date'])
dropna_Date(df) == LET valid(r) == r.Date # "NaT" IN SelectSeq(df, valid)

df_mood_MoodValue(df) ==
    LET df_mood == dropna_Date(df)
    IN  [k \in DOMAIN df_mood |-> fillna(map_mood(df_mood[k].Mood))]

(***************************************************************************)
(* Manage Sessions: labels and their resolution                            *)
(***************************************************************************)
\* f"{date} ({duration} min) - {str(SessionID)[:8]}..."
session_option(row) ==
    <<row.Date, " ", "(", ToString(row.Duration), " ", "m", "i", "n", ")">> \o SEP
        \o Slice(row.SessionID, PrefixLen) \o DOTS

session_options(df) == [k \in DOMAIN df |-> session_option(df[k])]

\* selected_option.split(' - ')[-1].replace('...', '')
selected_session_id_prefix(option) == replace_empty(split_last(option, SEP), DOTS)

\* the rows whose SessionID starts with the prefix, in the list's order
matching_rows(df, prefix) ==
    LET hit(r) == startswith(r.SessionID, prefix) IN SelectSeq(df, hit)

\* the last match instead of the first
last_matching_row(df, option) ==
    LET rows == matching_rows(df, selected_session_id_prefix(option))
    IN  rows[Len(rows)]

\* the first match, with the label's prefix taken for the full SessionID
row_named_by_prefix(df, option) ==
    [matching_rows(df, selected_session_id_prefix(option))[1]
        EXCEPT !.SessionID = selected_session_id_prefix(option)]

\* .iloc[0]
selected_session_row(df, option) == matching_rows(df, selected_session_id_prefix(option))[1]

index_of(options, v) == CHOOSE k \in DOMAIN options : options[k] = v

\* a fallback to the first option instead of Neutral
current_mood_index_first(row) ==
    IF row.Mood \in Range(mood_options) THEN index_of(mood_options, row.Mood) - 1 ELSE 0

\* options[index]: the selectbox default, for a 0-based index
current_mood_index(row) ==
    IF row.Mood \in Range(mood_options) THEN index_of(mood_options, row.Mood) - 1 ELSE 3

current_intensity_index(row) ==
    IF row.Intensity \in Range(intensity_options)
    THEN index_of(intensity_options, row.Intensity) - 1 ELSE 1


(***************************************************************************)
(* Initial state: nothing is cached and no script has run.  The sheet is   *)
(* empty or holds one row of old data, and one or two SessionIDs are left  *)
(* for the sheet to assign.                                                *)
(***************************************************************************)
Sheets ==
    { [store |-> <<>>, fresh |-> {IdLong1, IdShort}],
      [store |-> <<>>, fresh |-> {IdLong1, IdLong2}],
      [store |-> <<Row(IdSep, "U1", "2024-01-01", 60, "Legacy", "Legacy")>>,
       fresh |-> {IdLong1}],
      [store |-> <<Row(IdShort, "U2", "2024-01-01", 60, "Legacy", NaN)>>,
       fresh |-> {IdLong1}] }

Init ==
    /\ \E sheet \in Sheets : store = sheet.store /\ fresh = sheet.fresh
    /\ cache = [u \in Keys |-> NoEntry]
    /\ rerun = [s \in Sessions |-> NoRerun]
    /\ session = None
    /\ trigger = "none"
    /\ page = "Log Session"
    /\ user_id = None
    /\ user_sessions_df = <<>>
    /\ load = "none"
    /\ view = {}
    /\ manage = NoManage
    /\ call = NoCall
    /\ MoodValue = <<>>

(***************************************************************************)
(* Time passes: every cache entry ages                                     *)
(***************************************************************************)
Tick ==
    /\ \E u \in Keys : cache[u].present /\ cache[u].age < ttl
    /\ cache' = [u \in Keys |->
                   IF cache[u].present
                   THEN [cache[u] EXCEPT !.age = Min(cache[u].age + TickStep, ttl)]
                   ELSE cache[u]]
    /\ UNCHANGED <<store, fresh, rerun, session, trigger, page, user_id,
                   user_sessions_df, load, view, manage, call, MoodValue>>

(***************************************************************************)
(* auth.authenticate_user(): None, or the user_id of the Google account a  *)
(* browser session logs in with.  Each session is one person's browser; a  *)
(* rerun finds the token of the run that asked for it.                     *)
(***************************************************************************)
AccountOf == [s \in Sessions |-> IF s = "s1" THEN "U1" ELSE "U2"]

authenticate_user(s) == {AccountOf[s], None}
LoggedIn(s) == authenticate_user(s) \ {None}

\* a gate that lets every run through
stop_never(result) == FALSE

\* Lines 19-21: if user_id is None: st.info(...); st.stop()
stop(result) == result = None

(***************************************************************************)
(* What one script run produces: the locals and the page, and the sheet,   *)
(* the cache and the rerun request it leaves behind.                       *)
(***************************************************************************)
\* the run that st.stop() ended at the gate
Stopped ==
    [user_sessions_df |-> <<>>, load |-> "none", view |-> {"login_info"},
     manage |-> NoManage, call |-> NoCall, MoodValue |-> <<>>,
     store |-> store, fresh |-> fresh, cache |-> cache, rerun |-> FALSE]

\* Lines 25-43: title, sidebar and user_sessions_df = load_user_data(user_id)
Loaded(L) ==
    [user_sessions_df |-> L.data, load |-> L.served, view |-> {"title", "sidebar"},
     manage |-> NoManage, call |-> NoCall, MoodValue |-> <<>>,
     store |-> store, fresh |-> fresh, cache |-> L.cache, rerun |-> FALSE]

\* a handler that clears the cache whatever sheets returned
on_result_unconditional(c, ok) == load_user_data_clear(c)

\* The pattern of every mutating handler:
\*     if sheets.<op>(...): load_user_data.clear(); st.rerun()
\* the cache after the handler, given what sheets returned
on_result(c, ok) == IF ok THEN load_user_data_clear(c) ELSE c

Data(d, dur, i, m) == [Date |-> d, Duration |-> dur, Intensity |-> i, Mood |-> m]

\* Page "Log Session" (lines 47-82)
log_session(u, L, inp) ==
    LET new_session_data == Data(inp.date, inp.duration, inp.intensity, inp.mood)
        shown == [Loaded(L) EXCEPT !.view = @ \cup {"session_form"}]
    IN  IF inp.click # "submit" THEN shown
        ELSE [shown EXCEPT
                !.call = [op |-> "add_session", session_id |-> inp.id,
                          Intensity |-> inp.intensity, Mood |-> inp.mood, ok |-> inp.ok],
                !.store = IF inp.ok THEN add_session(store, u, inp.id, new_session_data)
                          ELSE store,
                !.fresh = IF inp.ok THEN fresh \ {inp.id} ELSE fresh,
                !.cache = on_result(L.cache, inp.ok),
                !.rerun = inp.ok]

\* Page "Dashboard" (lines 85-148)
dashboard(L) ==
    LET df == L.data
    IN  IF df = <<>>
        THEN [Loaded(L) EXCEPT !.view = @ \cup {"info_log_some_sessions"}]
        ELSE IF dropna_Date(df) = <<>>
        THEN [Loaded(L) EXCEPT
                !.view = @ \cup {"metrics", "info_no_valid_dates", "intensity_pie"}]
        ELSE [Loaded(L) EXCEPT
                !.view = @ \cup {"metrics", "mood_line", "intensity_pie"},
                !.MoodValue = df_mood_MoodValue(df)]

\* a resolution that never fails: it falls back to the first row
resolve_unchecked(df, option) ==
    IF matching_rows(df, selected_session_id_prefix(option)) = <<>>
    THEN [found |-> TRUE, row |-> df[1]]
    ELSE [found |-> TRUE, row |-> matching_rows(df, selected_session_id_prefix(option))[1]]

\* Lines 186-194: the try block up to selected_session_id; found is FALSE when
\* .iloc[0] raises IndexError
resolve(df, option) ==
    IF matching_rows(df, selected_session_id_prefix(option)) = <<>>
    THEN [found |-> FALSE, row |-> df[1]]
    ELSE [found |-> TRUE, row |-> selected_session_row(df, option)]

\* Lines 176-194: the selectbox holds option number `choice` of session_options
\* (the first option when there is no such option); k is the option's number
NoSelection == [k |-> 0, found |-> FALSE, row |-> Row(NoId, None, None, 0, None, None)]

select(df, choice) ==
    IF df = <<>> THEN NoSelection
    ELSE LET k == IF choice \in DOMAIN df THEN choice ELSE 1
             r == resolve(df, session_options(df)[k])
         IN  [k |-> k, found |-> r.found, row |-> r.row]

\* Page "Manage Sessions" (lines 153-252), sel being the selection.  Every loaded
\* row has a SessionID column and well-typed fields, so the branches of lines
\* 248-252 are not taken.
manage_sessions(L, sel, inp) ==
    LET df == L.data
        selected_session_id == sel.row.SessionID
        mood_default == mood_options[current_mood_index(sel.row) + 1]
        intensity_default == intensity_options[current_intensity_index(sel.row) + 1]
        edit_mood == IF inp.mood = None THEN mood_default ELSE inp.mood
        edit_intensity == IF inp.intensity = None THEN intensity_default
                          ELSE inp.intensity
        updated_data == Data(sel.row.Date, sel.row.Duration, edit_intensity, edit_mood)
        success == inp.ok /\ HasRow(store, selected_session_id)
        table == [Loaded(L) EXCEPT !.view = @ \cup {"dataframe", "selectbox"}]
        form == [table EXCEPT
                   !.view = @ \cup {"edit_form"},
                   !.manage = [option_index |-> sel.k,
                               selected_session_id |-> selected_session_id,
                               resolved |-> TRUE,
                               stored_mood |-> sel.row.Mood,
                               stored_intensity |-> sel.row.Intensity,
                               mood_default |-> mood_default,
                               intensity_default |-> intensity_default]]
    IN  IF df = <<>>
        THEN [Loaded(L) EXCEPT !.view = @ \cup {"info_no_sessions"}]
        ELSE IF ~sel.found
        THEN [table EXCEPT
                !.view = @ \cup {"warning_not_found"},
                !.manage = [NoManage EXCEPT !.option_index = sel.k]]
        ELSE IF inp.click = "update"
        THEN [form EXCEPT
                !.call = [op |-> "update_session", session_id |-> selected_session_id,
                          Intensity |-> edit_intensity, Mood |-> edit_mood,
                          ok |-> success],
                !.store = IF success
                          THEN update_session(store, selected_session_id, updated_data)
                          ELSE store,
                !.cache = on_result(L.cache, success),
                !.view = @ \cup (IF success THEN {} ELSE {"delete_button"}),
                !.rerun = success]
        ELSE IF inp.click = "delete"
        THEN [form EXCEPT
                !.call = [op |-> "delete_session", session_id |-> selected_session_id,
                          Intensity |-> None, Mood |-> None, ok |-> success],
                !.store = IF success THEN delete_session(store, selected_session_id)
                          ELSE store,
                !.cache = on_result(L.cache, success),
                !.view = @ \cup {"delete_button"},
                !.rerun = success]
        ELSE [form EXCEPT !.view = @ \cup {"delete_button"}]

\* One run of the script for session s: authenticate_user() returns `result`, the
\* radio shows page p, load_user_data(user_id) answers L, the selectbox of Manage
\* Sessions holds sel, and inp is what the user entered and what the sheet answers
Script(s, why, p, result, L, sel, inp) ==
    \E R \in {IF stop(result) THEN Stopped
                ELSE CASE p = "Log Session" -> log_session(result, L, inp)
                       [] p = "Dashboard" -> dashboard(L)
                       [] p = "Manage Sessions" -> manage_sessions(L, sel, inp)} :
        /\ rerun' = [rerun EXCEPT ![s] = IF R.rerun THEN [page |-> p, user |-> result]
                                          ELSE NoRerun]
        /\ session' = s
        /\ trigger' = why
        /\ page' = p
        /\ user_id' = result
        /\ user_sessions_df' = R.user_sessions_df
        /\ load' = R.load
        /\ view' = R.view
        /\ manage' = R.manage
        /\ call' = R.call
        /\ MoodValue' = R.MoodValue
        /\ store' = R.store
        /\ fresh' = R.fresh
        /\ cache' = R.cache

NoInput == [click |-> "none", date |-> None, duration |-> 0,
            intensity |-> None, mood |-> None, ok |-> FALSE, id |-> NoId]

\* Line 43 for user u, and the selections the user can make in what it returns
Loads(u) == {load_user_data(cache, store, u)}
Selections(L) == {select(L.data, choice) : choice \in 1..MaxOptions}

(***************************************************************************)
(* The interactions of a user with a session, and st.rerun()               *)
(***************************************************************************)
\* any interaction while authenticate_user() returns None
LoggedOut(s) ==
    /\ rerun[s] = NoRerun
    /\ \E p \in Pages, result \in authenticate_user(s) \ LoggedIn(s) : \E L \in Loads(result) :
          Script(s, "interaction", p, result, L, NoSelection, NoInput)

\* the Log Session page is opened
LogSessionForm(s) ==
    /\ rerun[s] = NoRerun
    /\ \E result \in LoggedIn(s) : \E L \in Loads(result) :
          Script(s, "interaction", "Log Session", result, L, NoSelection, NoInput)

\* sheets.add_session either fails, or appends a row under a fresh SessionID
add_outcomes ==
    {[ok |-> FALSE, id |-> NoId]} \cup {[ok |-> TRUE, id |-> id] : id \in fresh}

\* "Log Session" is pressed
LogSessionSubmit(s) ==
    /\ rerun[s] = NoRerun
    /\ \E result \in LoggedIn(s) : \E L \in Loads(result) :
       \E session_date \in Dates, session_duration \in Durations,
          entered \in LogChoices, r \in add_outcomes :
          Script(s, "interaction", "Log Session", result, L, NoSelection,
                 [click |-> "submit", date |-> session_date,
                  duration |-> session_duration, intensity |-> entered.intensity,
                  mood |-> entered.mood, ok |-> r.ok, id |-> r.id])

\* the Dashboard page is opened
Dashboard(s) ==
    /\ rerun[s] = NoRerun
    /\ \E result \in LoggedIn(s) : \E L \in Loads(result) :
          Script(s, "interaction", "Dashboard", result, L, NoSelection, NoInput)

\* the Manage Sessions page is opened, or another option is selected
ManageSelect(s) ==
    /\ rerun[s] = NoRerun
    /\ \E result \in LoggedIn(s) : \E L \in Loads(result) : \E sel \in Selections(L) :
          Script(s, "interaction", "Manage Sessions", result, L, sel, NoInput)

\* "Update Session" is pressed; a field the user leaves alone keeps its default
ManageUpdate(s) ==
    /\ rerun[s] = NoRerun
    /\ \E result \in LoggedIn(s) : \E L \in Loads(result) : \E sel \in Selections(L) :
       \E entered \in EditChoices, ok \in BOOLEAN :
          Script(s, "interaction", "Manage Sessions", result, L, sel,
                 [NoInput EXCEPT !.click = "update", !.intensity = entered.intensity,
                                 !.mood = entered.mood, !.ok = ok])

\* "Delete Session" is pressed
ManageDelete(s) ==
    /\ rerun[s] = NoRerun
    /\ \E result \in LoggedIn(s) : \E L \in Loads(result) : \E sel \in Selections(L) :
       \E ok \in BOOLEAN :
          Script(s, "interaction", "Manage Sessions", result, L, sel,
                 [NoInput EXCEPT !.click = "delete", !.ok = ok])

\* st.rerun(): the script runs again at once, with no widget touched
Rerun(s) ==
    /\ rerun[s] # NoRerun
    /\ \E L \in Loads(rerun[s].user) : \E sel \in Selections(L) :
          Script(s, "rerun", rerun[s].page, rerun[s].user, L, sel, NoInput)

Next ==
    \/ Tick
    \/ \E s \in Sessions : LoggedOut(s)
    \/ \E s \in Sessions : LogSessionForm(s)
    \/ \E s \in Sessions : LogSessionSubmit(s)
    \/ \E s \in Sessions : Dashboard(s)
    \/ \E s \in Sessions : ManageSelect(s)
    \/ \E s \in Sessions : ManageUpdate(s)
    \/ \E s \in Sessions : ManageDelete(s)
    \/ \E s \in Sessions : Rerun(s)

Spec == Init /\ [][Next]_vars

(***************************************************************************)
(* The mood trend as a function of the loaded rows: the sheet holds one or *)
(* two rows of one user with any stored mood and date, and only the        *)
(* Dashboard is opened.                                                    *)
(***************************************************************************)
StoredDates == Dates \cup {"NaT"}

MoodRows(id) == {Row(id, "U1", d, 60, "Low", m) : d \in StoredDates, m \in StoredMoods}

MoodSheets ==
    {<<r>> : r \in MoodRows(IdLong1)} \cup
    {<<r1, r2>> : r1 \in MoodRows(IdLong1), r2 \in MoodRows(IdLong2)}

InitMood ==
    /\ store \in MoodSheets
    /\ fresh = {}
    /\ cache = [u \in Keys |-> NoEntry]
    /\ rerun = [s \in Sessions |-> NoRerun]
    /\ session = None
    /\ trigger = "none"
    /\ page = "Log Session"
    /\ user_id = None
    /\ user_sessions_df = <<>>
    /\ load = "none"
    /\ view = {}
    /\ manage = NoManage
    /\ call = NoCall
    /\ MoodValue = <<>>

NextMood == \E s \in Sessions : Dashboard(s)

SpecMood == InitMood /\ [][NextMood]_vars

(***************************************************************************)
(* Properties                                                              *)
(***************************************************************************)
IdsOf(df) == {df[k].SessionID : k \in DOMAIN df}

\* C1: the run that st.rerun() starts after a successful add, update or delete has
\* loaded exactly the rows the sheet now returns for the user, never an older
\* cached list, however young the cache entry was
C1_RerunLoadsCurrentRows ==
    trigger = "rerun" => user_sessions_df = get_all_sessions(store, user_id)

\* a rerun after a successful update has loaded rows that differ from the sheet's
\* rows before; the entry it re-read is in the cache
C1_Witness ==
    /\ trigger = "rerun" /\ page = "Manage Sessions"
    /\ load = "miss" /\ user_sessions_df # <<>>
    /\ cache[user_id].present /\ cache[user_id].age = 0
    /\ \E k \in DOMAIN user_sessions_df : user_sessions_df[k].Mood = mood_options[3]

\* C2: a run in which authenticate_user() returns None stops at the gate: nothing
\* is loaded, no view is drawn, no sheets mutation is called
C2_GateStopsEverything ==
    user_id = None =>
        /\ load = "none" /\ user_sessions_df = <<>>
        /\ view \subseteq {"login_info"}
        /\ manage = NoManage /\ MoodValue = <<>>
        /\ call = NoCall
        /\ \A s \in Sessions : session = s => rerun[s] = NoRerun

\* a run was stopped at the gate although the sheet holds rows
C2_Witness ==
    /\ session \in Sessions /\ user_id = None
    /\ view = {"login_info"} /\ store # <<>>

\* C3: when the sheets call of a run fails, no entry leaves the cache and none
\* changes: other users' entries are as before the run, the user's own entry is the
\* one the run loaded; no rerun is pending and the sheet is unchanged
C3_FailureLeavesCache ==
    [][(~Tick /\ call'.op # "none" /\ ~call'.ok) =>
          /\ \A u \in Keys :
                (cache[u].present /\ (u # user_id' \/ cache[u].age < ttl))
                    => cache'[u] = cache[u]
          /\ cache'[user_id'].present
          /\ cache'[user_id'].data = user_sessions_df'
          /\ rerun'[session'] = NoRerun
          /\ store' = store]_vars

\* a failed update with both users' entries in the cache
C3_Witness ==
    /\ call.op = "update_session" /\ ~call.ok
    /\ \A u \in Users : cache[u].present

\* C4 (as claimed): a successful add, update or delete by one user leaves the
\* cache entries of the other users as they were
C4_OtherUsersEntriesKept ==
    [][(~Tick /\ call'.op # "none" /\ call'.ok) =>
          \A u \in Users \ {user_id'} : cache'[u] = cache[u]]_vars

\* C5: the session_id passed to update_session or delete_session is the SessionID
\* of a row of the list loaded for the run's user_id; all rows of that list, and
\* the sheet's row of that id, belong to that user
C5_MutatesOwnRowsOnly ==
    call.op \in {"update_session", "delete_session"} =>
        /\ call.session_id \in IdsOf(user_sessions_df)
        /\ \A k \in DOMAIN user_sessions_df : user_sessions_df[k].UserID = user_id
        /\ \A k \in DOMAIN store :
              store[k].SessionID = call.session_id => store[k].UserID = user_id

\* a delete went through while the sheet holds a row of another user
C5_Witness ==
    /\ call.op = "delete_session" /\ call.ok
    /\ \E k \in DOMAIN store : store[k].UserID # user_id

\* the identifier prefix of a label: the text after the last ' - ', without '...'
LastSeparator(option) ==
    CHOOSE i \in 1..(Len(option) - 2) :
        /\ SubSeq(option, i, i + 2) = SEP
        /\ \A j \in (i + 1)..(Len(option) - 2) : SubSeq(option, j, j + 2) # SEP

LabelPrefix(option) ==
    replace_empty(SubSeq(option, LastSeparator(option) + 3, Len(option)), DOTS)

SelectedLabel == session_option(user_sessions_df[manage.option_index])

Matches(k) == startswith(user_sessions_df[k].SessionID, LabelPrefix(SelectedLabel))

\* C6: the selected label resolves to the SessionID of the first row of the loaded
\* list, in list order, whose SessionID starts with the label's identifier prefix
C6_FirstMatchWins ==
    manage.resolved =>
        \E i \in DOMAIN user_sessions_df :
            /\ Matches(i)
            /\ \A j \in 1..(i - 1) : ~Matches(j)
            /\ manage.selected_session_id = user_sessions_df[i].SessionID

\* two rows match the selected label
C6_Witness ==
    /\ manage.resolved
    /\ Cardinality({k \in DOMAIN user_sessions_df : Matches(k)}) > 1

\* C7: when no row of the loaded list matches the selected label, the page shows
\* the warning and neither the edit form nor the delete button; no sheets call is
\* made, no rerun is asked for and the cache keeps the loaded entry
C7_UnresolvedSelectionIsInert ==
    (manage.option_index > 0 /\ \A k \in DOMAIN user_sessions_df : ~Matches(k)) =>
        /\ "warning_not_found" \in view
        /\ "edit_form" \notin view /\ "delete_button" \notin view
        /\ call = NoCall
        /\ rerun[session] = NoRerun
        /\ cache[user_id].present /\ cache[user_id].data = user_sessions_df

\* a label that no row matches was selected
C7_Witness ==
    /\ manage.option_index > 0
    /\ \A k \in DOMAIN user_sessions_df : ~Matches(k)
    /\ "warning_not_found" \in view

\* the ordinal of a mood as the claim states it, in tenths
Ordinal(m) ==
    CASE m = "Tired" -> 10
      [] m = "Neutral" -> 20
      [] m = "Achieved" -> 30
      [] m = "Happy" -> 40
      [] m = "Energized" -> 50
      [] OTHER -> 25

ValidDates(df) == LET ok(r) == r.Date \in Dates IN SelectSeq(df, ok)

\* C8: the plotted MoodValue of every row with a valid date is 1, 2, 3, 4, 5 for
\* Tired, Neutral, Achieved, Happy, Energized, and 2.5 for any other mood value,
\* a missing value included
C8_MoodOrdinals ==
    "mood_line" \in view =>
        /\ Len(MoodValue) = Len(ValidDates(user_sessions_df))
        /\ \A k \in DOMAIN MoodValue :
              MoodValue[k] = Ordinal(ValidDates(user_sessions_df)[k].Mood)

\* a trend over a missing mood and over Achieved
C8_Witness ==
    /\ "mood_line" \in view
    /\ Len(user_sessions_df) = 2
    /\ user_sessions_df[1].Mood = NaN /\ user_sessions_df[2].Mood = "Achieved"
    /\ MoodValue = <<25, 30>>

AllowedMoods == {"Energized", "Happy", "Tired", "Neutral", "Achieved"}
AllowedIntensities == {"Low", "Medium", "High"}

\* C9: the edit form's mood and intensity are pre-filled with the stored value when
\* it is an allowed one, with Neutral and Medium otherwise; the values sent to
\* update_session are allowed ones
C9_PrefillAndSentValues ==
    manage.resolved =>
        /\ manage.mood_default =
              (IF manage.stored_mood \in AllowedMoods THEN manage.stored_mood
               ELSE "Neutral")
        /\ manage.intensity_default =
              (IF manage.stored_intensity \in AllowedIntensities
               THEN manage.stored_intensity ELSE "Medium")
        /\ call.op = "update_session" =>
              call.Mood \in AllowedMoods /\ call.Intensity \in AllowedIntensities

\* a row of old data was updated with the form left as pre-filled
C9_Witness ==
    /\ manage.resolved
    /\ manage.stored_mood \notin AllowedMoods
    /\ manage.stored_intensity \notin AllowedIntensities
    /\ call.op = "update_session" /\ call.ok
    /\ call.Mood = "Neutral" /\ call.Intensity = "Medium"

UniquePrefix(df, k) ==
    \A j \in DOMAIN df \ {k} :
        Slice(df[j].SessionID, PrefixLen) # Slice(df[k].SessionID, PrefixLen)

\* C10 (as claimed): selecting the label of a row whose first 8 SessionID
\* characters no other row of the list shares resolves to that row's SessionID,
\* and an update or delete is sent for that row
C10_LabelRoundTrip ==
    (manage.option_index > 0 /\ UniquePrefix(user_sessions_df, manage.option_index)) =>
        /\ manage.resolved
        /\ manage.selected_session_id = user_sessions_df[manage.option_index].SessionID
        /\ call.op \in {"update_session", "delete_session"} =>
              call.session_id = user_sessions_df[manage.option_index].SessionID

====
